---- MODULE Spec2Model ----
(***************************************************************************)
(* Model of src/kernel/c_entry/main.c: the C entry shim of the kernel.     *)
(* kernel_main writes four cells of the VGA text buffer, validates the     *)
(* BootInfo it was given, wraps the verdict in a ValidatedBootInfo and     *)
(* calls rust_kernel_entry with it.                                        *)
(***************************************************************************)
EXTENDS Integers, Sequences, FiniteSets, TLC

(* ------------------------------ bounds --------------------------------- *)

\* number of cells of the text device that are modelled (cells 0..NumCells-1)
NumCells == 6

\* the fields validate_boot_info never reads range over 0..MaxAux
MaxAux == 1

(* ------------------------- program constants --------------------------- *)

\* main.c:33  0x36d76289
MULTIBOOT2_MAGIC == 920085129

\* main.c:34  *errno = 7
ERR_MAGIC == 7

\* main.c:38,42,46,50,54  *errno = 2
ERR_STRUCT == 2

\* main.c:37  0xFFF, as the modulus of the mask (x & 0xFFF = x % 4096)
PAGE_SIZE == 4096

\* main.c:41  0xF, as the modulus of the mask (x & 0xF = x % 16)
STACK_ALIGN == 16

\* main.c:65  0x074F
VGA_O == 1871

\* main.c:66  0x074B
VGA_K == 1867

\* main.c:69,70  0x0730
VGA_DIGIT_BASE == 1840

\* unsigned short: the width of one device cell
USHORT_MOD == 65536

(* ------------------------------- inputs -------------------------------- *)

\* 0x36d76200: the magic with its low byte cleared
MagicHigh == MULTIBOOT2_MAGIC - 137

\* magic values of the main specification: the right one, neighbours that
\* differ in one nibble, the multiboot1 magic 0x1BADB002, and 0
Magics == {MULTIBOOT2_MAGIC, MagicHigh + 138, MagicHigh + 255,
           MagicHigh + 9, 464367618, 0}

\* every low byte, under the right and under a wrong high part
DeviceMagics == {MagicHigh + b : b \in 0..255} \cup (0..255)

\* 0, 0x1000 (aligned), 0x1001 (misaligned)
PageTableBases == {0, 4096, 4097}

\* 0, 0x2000 (aligned), 0x2008 (misaligned)
StackTops == {0, 8192, 8200}

KernelEntries == {0, 12288}
FramebufferAddrs == {0, 16384}
MemoryMapAddrs == {0, 20480}
Aux == 0..MaxAux

\* addresses at which the caller may have placed the BootInfo
BootInfoAddrs == {28672, 32768}

\* values the diagnostic code may hold when kernel_main is entered
InitialErrnos == {0, 5}

BootInfo ==
    [multiboot_magic : Magics, multiboot_info : Aux,
     cpuid_edx : Aux, cpuid_ecx : Aux,
     page_table_base : PageTableBases, stack_top : StackTops,
     framebuffer_addr : FramebufferAddrs, memory_map_addr : MemoryMapAddrs,
     kernel_entry : KernelEntries, boot_entry : Aux]

DeviceBootInfo ==
    [multiboot_magic : DeviceMagics, multiboot_info : {0},
     cpuid_edx : {0}, cpuid_ecx : {0},
     page_table_base : {0, 4096}, stack_top : {8192},
     framebuffer_addr : {16384}, memory_map_addr : {20480},
     kernel_entry : {12288}, boot_entry : {0}]

(* -------------------------------- state -------------------------------- *)

VARIABLES
    pc,         \* position in kernel_main
    biPtr,      \* kernel_main's parameter: the address of the BootInfo
    bi,         \* the BootInfo stored at that address
    errno,      \* *__errno_location()
    vga,        \* the device cells at 0xB8000
    vgaWrites,  \* how often each cell has been stored to
    vbi,        \* kernel_main's local ValidatedBootInfo
    rustCalls,  \* number of calls of rust_kernel_entry
    rustArg,    \* the record the last call of rust_kernel_entry received
    log,        \* the stores and calls made so far, in order
    bi0,        \* the BootInfo at entry
    errno0      \* the diagnostic code at entry

vars == <<pc, biPtr, bi, errno, vga, vgaWrites, vbi, rustCalls, rustArg,
          log, bi0, errno0>>

\* the local vbi before its initializer has run
NoVbi == [input |-> 0, validity |-> FALSE]

\* a cell nothing has been stored to
BlankCell == 1824

(* ----------------------------- validation ------------------------------ *)

\* a faulty validation: the structural checks come before the magic check
validate_boot_info_structFirst(b) ==
    IF b.page_table_base = 0 \/ (b.page_table_base % PAGE_SIZE) # 0
    THEN [ret |-> FALSE, writes |-> <<ERR_STRUCT>>]
    ELSE IF b.multiboot_magic # MULTIBOOT2_MAGIC
    THEN [ret |-> FALSE, writes |-> <<ERR_MAGIC>>]
    ELSE IF b.stack_top = 0 \/ (b.stack_top % STACK_ALIGN) # 0
    THEN [ret |-> FALSE, writes |-> <<ERR_STRUCT>>]
    ELSE IF b.kernel_entry = 0
    THEN [ret |-> FALSE, writes |-> <<ERR_STRUCT>>]
    ELSE IF b.framebuffer_addr = 0
    THEN [ret |-> FALSE, writes |-> <<ERR_STRUCT>>]
    ELSE IF b.memory_map_addr = 0
    THEN [ret |-> FALSE, writes |-> <<ERR_STRUCT>>]
    ELSE [ret |-> TRUE, writes |-> <<>>]

\* a faulty validation: the framebuffer check is missing
validate_boot_info_noFramebuffer(b) ==
    IF b.multiboot_magic # MULTIBOOT2_MAGIC
    THEN [ret |-> FALSE, writes |-> <<ERR_MAGIC>>]
    ELSE IF b.page_table_base = 0 \/ (b.page_table_base % PAGE_SIZE) # 0
    THEN [ret |-> FALSE, writes |-> <<ERR_STRUCT>>]
    ELSE IF b.stack_top = 0 \/ (b.stack_top % STACK_ALIGN) # 0
    THEN [ret |-> FALSE, writes |-> <<ERR_STRUCT>>]
    ELSE IF b.kernel_entry = 0
    THEN [ret |-> FALSE, writes |-> <<ERR_STRUCT>>]
    ELSE IF b.memory_map_addr = 0
    THEN [ret |-> FALSE, writes |-> <<ERR_STRUCT>>]
    ELSE [ret |-> TRUE, writes |-> <<>>]

\* a faulty validation: success clears the diagnostic code
validate_boot_info_clearsErrno(b) ==
    IF b.multiboot_magic # MULTIBOOT2_MAGIC
    THEN [ret |-> FALSE, writes |-> <<ERR_MAGIC>>]
    ELSE IF b.page_table_base = 0 \/ (b.page_table_base % PAGE_SIZE) # 0
    THEN [ret |-> FALSE, writes |-> <<ERR_STRUCT>>]
    ELSE IF b.stack_top = 0 \/ (b.stack_top % STACK_ALIGN) # 0
    THEN [ret |-> FALSE, writes |-> <<ERR_STRUCT>>]
    ELSE IF b.kernel_entry = 0
    THEN [ret |-> FALSE, writes |-> <<ERR_STRUCT>>]
    ELSE IF b.framebuffer_addr = 0
    THEN [ret |-> FALSE, writes |-> <<ERR_STRUCT>>]
    ELSE IF b.memory_map_addr = 0
    THEN [ret |-> FALSE, writes |-> <<ERR_STRUCT>>]
    ELSE [ret |-> TRUE, writes |-> <<0>>]

\* a faulty validation: the magic check does not return, so a later failing
\* check stores a second code
validate_boot_info_noReturn(b) ==
    LET w == IF b.multiboot_magic # MULTIBOOT2_MAGIC
             THEN <<ERR_MAGIC>> ELSE <<>>
    IN  IF b.page_table_base = 0 \/ (b.page_table_base % PAGE_SIZE) # 0
        THEN [ret |-> FALSE, writes |-> w \o <<ERR_STRUCT>>]
        ELSE IF b.stack_top = 0 \/ (b.stack_top % STACK_ALIGN) # 0
        THEN [ret |-> FALSE, writes |-> w \o <<ERR_STRUCT>>]
        ELSE IF b.kernel_entry = 0
        THEN [ret |-> FALSE, writes |-> w \o <<ERR_STRUCT>>]
        ELSE IF b.framebuffer_addr = 0
        THEN [ret |-> FALSE, writes |-> w \o <<ERR_STRUCT>>]
        ELSE IF b.memory_map_addr = 0
        THEN [ret |-> FALSE, writes |-> w \o <<ERR_STRUCT>>]
        ELSE [ret |-> (w = <<>>), writes |-> w]

\* a faulty validation: boot_entry is checked as well
validate_boot_info_checksBootEntry(b) ==
    IF b.multiboot_magic # MULTIBOOT2_MAGIC
    THEN [ret |-> FALSE, writes |-> <<ERR_MAGIC>>]
    ELSE IF b.page_table_base = 0 \/ (b.page_table_base % PAGE_SIZE) # 0
    THEN [ret |-> FALSE, writes |-> <<ERR_STRUCT>>]
    ELSE IF b.stack_top = 0 \/ (b.stack_top % STACK_ALIGN) # 0
    THEN [ret |-> FALSE, writes |-> <<ERR_STRUCT>>]
    ELSE IF b.kernel_entry = 0
    THEN [ret |-> FALSE, writes |-> <<ERR_STRUCT>>]
    ELSE IF b.framebuffer_addr = 0
    THEN [ret |-> FALSE, writes |-> <<ERR_STRUCT>>]
    ELSE IF b.memory_map_addr = 0
    THEN [ret |-> FALSE, writes |-> <<ERR_STRUCT>>]
    ELSE IF b.boot_entry = 0
    THEN [ret |-> FALSE, writes |-> <<ERR_STRUCT>>]
    ELSE [ret |-> TRUE, writes |-> <<>>]

\* validate_boot_info(bi): the value returned and the values stored to
\* *errno, in order.  The checks run in the order of the code and the first
\* failing one returns.
validate_boot_info(b) ==
    IF b.multiboot_magic # MULTIBOOT2_MAGIC
    THEN [ret |-> FALSE, writes |-> <<ERR_MAGIC>>]
    ELSE IF b.page_table_base = 0 \/ (b.page_table_base % PAGE_SIZE) # 0
    THEN [ret |-> FALSE, writes |-> <<ERR_STRUCT>>]
    ELSE IF b.stack_top = 0 \/ (b.stack_top % STACK_ALIGN) # 0
    THEN [ret |-> FALSE, writes |-> <<ERR_STRUCT>>]
    ELSE IF b.kernel_entry = 0
    THEN [ret |-> FALSE, writes |-> <<ERR_STRUCT>>]
    ELSE IF b.framebuffer_addr = 0
    THEN [ret |-> FALSE, writes |-> <<ERR_STRUCT>>]
    ELSE IF b.memory_map_addr = 0
    THEN [ret |-> FALSE, writes |-> <<ERR_STRUCT>>]
    ELSE [ret |-> TRUE, writes |-> <<>>]

\* the diagnostic code after the stores ws, starting from e
ErrnoAfter(e, ws) == IF ws = <<>> THEN e ELSE ws[Len(ws)]

(* ------------------------------ events --------------------------------- *)

VgaEvent(k, v) == [ev |-> "vga", arg |-> k, val |-> v]
ValidateEvent == [ev |-> "validate", arg |-> 0, val |-> 0]
ErrnoEvent(v) == [ev |-> "errno", arg |-> 0, val |-> v]
HandoffEvent == [ev |-> "handoff", arg |-> 0, val |-> 0]

ErrnoEvents(ws) == [i \in 1..Len(ws) |-> ErrnoEvent(ws[i])]

(* ----------------------------- kernel_main ----------------------------- *)

\* the value stored for nibble n: 0x0730 + n, converted to unsigned short
DigitCell(n) == (VGA_DIGIT_BASE + n) % USHORT_MOD

\* a store of v to vga[k]
StoreVga(k, v) ==
    /\ vga' = [vga EXCEPT ![k] = v]
    /\ vgaWrites' = [vgaWrites EXCEPT ![k] = @ + 1]
    /\ log' = Append(log, VgaEvent(k, v))

\* vga[0] = 0x074F
WriteVga0 ==
    /\ pc = "L65"
    /\ StoreVga(0, VGA_O)
    /\ pc' = "L66"
    /\ UNCHANGED <<biPtr, bi, errno, vbi, rustCalls, rustArg, bi0, errno0>>

\* vga[1] = 0x074B
WriteVga1 ==
    /\ pc = "L66"
    /\ StoreVga(1, VGA_K)
    /\ pc' = "L69"
    /\ UNCHANGED <<biPtr, bi, errno, vbi, rustCalls, rustArg, bi0, errno0>>

\* vga[2] = 0x0730 + ((bi->multiboot_magic >> 0) & 0xF)
WriteVga2 ==
    /\ pc = "L69"
    /\ StoreVga(2, DigitCell(bi.multiboot_magic % 16))
    /\ pc' = "L70"
    /\ UNCHANGED <<biPtr, bi, errno, vbi, rustCalls, rustArg, bi0, errno0>>

\* a faulty store: the fourth store goes to cell 4
WriteVga3_cell4 ==
    /\ pc = "L70"
    /\ StoreVga(4, DigitCell((bi.multiboot_magic \div 16) % 16))
    /\ pc' = "L72"
    /\ UNCHANGED <<biPtr, bi, errno, vbi, rustCalls, rustArg, bi0, errno0>>

\* vga[3] = 0x0730 + ((bi->multiboot_magic >> 4) & 0xF)
WriteVga3 ==
    /\ pc = "L70"
    /\ StoreVga(3, DigitCell((bi.multiboot_magic \div 16) % 16))
    /\ pc' = "L72"
    /\ UNCHANGED <<biPtr, bi, errno, vbi, rustCalls, rustArg, bi0, errno0>>

\* a faulty initializer: the validation rounds page_table_base down to a page
Validate_fixesDescriptor ==
    /\ pc = "L72"
    /\ LET r == validate_boot_info(bi)
       IN  /\ vbi' = [input |-> biPtr, validity |-> r.ret]
           /\ errno' = ErrnoAfter(errno, r.writes)
           /\ log' = log \o <<ValidateEvent>> \o ErrnoEvents(r.writes)
    /\ bi' = [bi EXCEPT !.page_table_base = @ - (@ % PAGE_SIZE)]
    /\ pc' = "L77"
    /\ UNCHANGED <<biPtr, vga, vgaWrites, rustCalls, rustArg, bi0, errno0>>

\* a faulty initializer: the verdict is dropped and the record says valid
Validate_dropsVerdict ==
    /\ pc = "L72"
    /\ LET r == validate_boot_info(bi)
       IN  /\ vbi' = [input |-> biPtr, validity |-> TRUE]
           /\ errno' = ErrnoAfter(errno, r.writes)
           /\ log' = log \o <<ValidateEvent>> \o ErrnoEvents(r.writes)
    /\ pc' = "L77"
    /\ UNCHANGED <<biPtr, bi, vga, vgaWrites, rustCalls, rustArg, bi0, errno0>>

\* ValidatedBootInfo vbi = { .input = bi, .validity = validate_boot_info(bi) }
Validate ==
    /\ pc = "L72"
    /\ LET r == validate_boot_info(bi)
       IN  /\ vbi' = [input |-> biPtr, validity |-> r.ret]
           /\ errno' = ErrnoAfter(errno, r.writes)
           /\ log' = log \o <<ValidateEvent>> \o ErrnoEvents(r.writes)
    /\ pc' = "L77"
    /\ UNCHANGED <<biPtr, bi, vga, vgaWrites, rustCalls, rustArg, bi0, errno0>>

\* a faulty handoff: an invalid descriptor makes kernel_main return
Handoff_onlyIfValid ==
    /\ pc = "L77"
    /\ IF vbi.validity
       THEN /\ rustCalls' = rustCalls + 1
            /\ rustArg' = vbi
            /\ log' = Append(log, HandoffEvent)
            /\ pc' = "rust"
       ELSE /\ pc' = "returned"
            /\ UNCHANGED <<rustCalls, rustArg, log>>
    /\ UNCHANGED <<biPtr, bi, errno, vga, vgaWrites, vbi, bi0, errno0>>

\* rust_kernel_entry(&vbi): the call
Handoff ==
    /\ pc = "L77"
    /\ rustCalls' = rustCalls + 1
    /\ rustArg' = vbi
    /\ log' = Append(log, HandoffEvent)
    /\ pc' = "rust"
    /\ UNCHANGED <<biPtr, bi, errno, vga, vgaWrites, vbi, bi0, errno0>>

\* whether the next stage comes back to its caller; it is a terminal
\* control transfer
rust_kernel_entry_returns == FALSE

\* the next stage runs; were it to return, kernel_main would reach its
\* closing brace and return too
RustKernelEntry ==
    /\ pc = "rust"
    /\ pc' = IF rust_kernel_entry_returns THEN "returned" ELSE "next_stage"
    /\ UNCHANGED <<biPtr, bi, errno, vga, vgaWrites, vbi, rustCalls, rustArg,
                   log, bi0, errno0>>

(* --------------------------- specifications ---------------------------- *)

InitWith(descriptors) ==
    /\ pc = "L65"
    /\ biPtr \in BootInfoAddrs
    /\ bi \in descriptors
    /\ bi0 = bi
    /\ errno \in InitialErrnos
    /\ errno0 = errno
    /\ vga = [k \in 0..(NumCells - 1) |-> BlankCell]
    /\ vgaWrites = [k \in 0..(NumCells - 1) |-> 0]
    /\ vbi = NoVbi
    /\ rustCalls = 0
    /\ rustArg = NoVbi
    /\ log = <<>>

Init == InitWith(BootInfo)

InitDevice == InitWith(DeviceBootInfo)

Next ==
    \/ WriteVga0
    \/ WriteVga1
    \/ WriteVga2
    \/ WriteVga3
    \/ Validate
    \/ Handoff
    \/ RustKernelEntry

Spec == Init /\ [][Next]_vars

SpecDevice == InitDevice /\ [][Next]_vars

(* ------------------------------ properties ----------------------------- *)

\* the initializer of vbi has run, so validate_boot_info has returned
Validated == pc \in {"L77", "rust", "next_stage", "returned"}

\* rust_kernel_entry has been called
HandedOff == pc \in {"rust", "next_stage", "returned"}

\* all four stores to the device have been made
DeviceWritten == pc \notin {"L65", "L66", "L69", "L70"}

MagicOk(b) == b.multiboot_magic = MULTIBOOT2_MAGIC

PageTableOk(b) == b.page_table_base # 0 /\ b.page_table_base % 4096 = 0

StackOk(b) == b.stack_top # 0 /\ b.stack_top % 16 = 0

AddrsOk(b) ==
    b.kernel_entry # 0 /\ b.framebuffer_addr # 0 /\ b.memory_map_addr # 0

StructuralFailure(b) == ~PageTableOk(b) \/ ~StackOk(b) \/ ~AddrsOk(b)

ErrnoStores == {i \in DOMAIN log : log[i].ev = "errno"}

\* C1: a wrong magic gives the verdict false and the diagnostic code 7,
\* whatever the other fields hold.
C1_WrongMagic ==
    (Validated /\ ~MagicOk(bi0)) => (vbi.validity = FALSE /\ errno = 7)

\* a wrong magic together with a null page table base, after validation
C1_Witness ==
    /\ Validated
    /\ ~MagicOk(bi0)
    /\ bi0.page_table_base = 0
    /\ bi0.stack_top = 8200
    /\ errno = 7

\* C2: the right magic with a failing structural check gives the verdict
\* false and the diagnostic code 2.
C2_StructuralFailure ==
    (Validated /\ MagicOk(bi0) /\ StructuralFailure(bi0))
        => (vbi.validity = FALSE /\ errno = 2)

\* only the framebuffer address is wrong, after validation
C2_Witness ==
    /\ Validated
    /\ MagicOk(bi0) /\ PageTableOk(bi0) /\ StackOk(bi0)
    /\ bi0.kernel_entry # 0 /\ bi0.memory_map_addr # 0
    /\ bi0.framebuffer_addr = 0
    /\ vbi.validity = FALSE
    /\ errno = 2

\* C3: a descriptor that passes all six checks gives the verdict true, and
\* the diagnostic code is not stored to: it keeps its value from entry.
C3_ValidKeepsErrno ==
    (Validated /\ MagicOk(bi0) /\ ~StructuralFailure(bi0))
        => (vbi.validity = TRUE /\ errno = errno0 /\ ErrnoStores = {})

\* a valid descriptor, entered with a non-zero diagnostic code, validated
C3_Witness ==
    /\ Validated
    /\ MagicOk(bi0) /\ ~StructuralFailure(bi0)
    /\ errno0 = 5
    /\ vbi.validity = TRUE

\* C4: rust_kernel_entry is called exactly once, for valid and invalid
\* descriptors alike: never twice, and it has been called exactly when
\* kernel_main is past line 77, which every run can reach; the record it
\* receives holds the pointer kernel_main was given and the verdict of
\* validate_boot_info on the descriptor.
C4_HandoffOnce ==
    /\ rustCalls = (IF pc \in {"rust", "next_stage"} THEN 1 ELSE 0)
    /\ (pc \notin {"rust", "next_stage"}) => ENABLED Next
    /\ rustCalls = 1 =>
         /\ rustArg.input = biPtr
         /\ rustArg.validity = validate_boot_info(bi0).ret

\* the handoff of an invalid descriptor
C4_Witness ==
    /\ rustCalls = 1
    /\ pc = "rust"
    /\ rustArg.validity = FALSE
    /\ rustArg.input = biPtr

C6_DescriptorUnchanged == bi = bi0

\* the diagnostic code and the device have changed, the descriptor has a
\* misaligned page table base
C6_Witness ==
    /\ pc = "next_stage"
    /\ bi0.page_table_base = 4097
    /\ errno # errno0
    /\ vga[0] # BlankCell

\* the ASCII code of the hexadecimal digit of a nibble: 0-9, A-F
HexGlyph(n) == IF n < 10 THEN 48 + n ELSE 55 + n

LowNibble(b) == b.multiboot_magic % 16

HighNibble(b) == (b.multiboot_magic \div 16) % 16

\* C7: after the device writes, cells 2 and 3 hold the two nibbles of the
\* low byte of the magic as hexadecimal-digit glyphs (0-9, A-F); the claim
\* does not fix which cell holds which nibble, so either order is accepted.
C7_HexGlyphs ==
    DeviceWritten =>
        \/ /\ vga[2] % 256 = HexGlyph(LowNibble(bi0))
           /\ vga[3] % 256 = HexGlyph(HighNibble(bi0))
        \/ /\ vga[2] % 256 = HexGlyph(HighNibble(bi0))
           /\ vga[3] % 256 = HexGlyph(LowNibble(bi0))

\* C8: cells 0 to 3 are stored to exactly once each and no other cell ever
\* is; cells 0 and 1 hold 'O' and 'K'; all four cells have the attribute
\* byte 0x07.
C8_FourCells ==
    /\ \A k \in DOMAIN vga : vgaWrites[k] <= 1
    /\ \A k \in DOMAIN vga : k > 3 => (vgaWrites[k] = 0 /\ vga[k] = BlankCell)
    /\ DeviceWritten =>
         /\ \A k \in 0..3 : vgaWrites[k] = 1 /\ vga[k] \div 256 = 7
         /\ vga[0] % 256 = 79
         /\ vga[1] % 256 = 75

\* the low byte of the magic is 0xFF and the run is over
C8_Witness ==
    /\ pc = "next_stage"
    /\ bi0.multiboot_magic % 256 = 255
    /\ vga[2] = 1855
    /\ vga[3] = 1855

EventRank(e) ==
    CASE e.ev = "vga" -> 0
      [] e.ev = "validate" -> 1
      [] e.ev = "errno" -> 2
      [] e.ev = "handoff" -> 3

\* C9: the four device stores come first, then the validation with its
\* store to the diagnostic code, then the handoff; the diagnostic code is
\* stored to at most once, and not at or after the handoff.
C9_Order ==
    /\ \A i, j \in DOMAIN log : i < j => EventRank(log[i]) <= EventRank(log[j])
    /\ \A i \in DOMAIN log :
          log[i].ev = "validate" =>
              {log[j].arg : j \in 1..(i - 1)} = 0..3 /\ i = 5
    /\ \A i \in DOMAIN log :
          log[i].ev = "handoff" => \E j \in 1..(i - 1) : log[j].ev = "validate"
    /\ Cardinality(ErrnoStores) <= 1
    /\ errno # errno0 => ErrnoStores # {}
    /\ HandedOff => log[Len(log)].ev = "handoff"

\* a run with a store to the diagnostic code, after the handoff
C9_Witness ==
    /\ pc = "next_stage"
    /\ Len(log) = 7
    /\ log[6].ev = "errno"
    /\ log[7].ev = "handoff"

\* C10: the verdict and the diagnostic code do not depend on multiboot_info,
\* cpuid_edx, cpuid_ecx and boot_entry: a descriptor that differs from the
\* validated one in those fields only gets the same verdict and leaves the
\* same diagnostic code, from the same diagnostic code at entry.
C10_UncheckedFieldsIgnored ==
    Validated =>
        \A mi, edx, ecx, be \in Aux :
            LET b2 == [bi0 EXCEPT !.multiboot_info = mi, !.cpuid_edx = edx,
                                  !.cpuid_ecx = ecx, !.boot_entry = be]
                r2 == validate_boot_info(b2)
            IN  /\ r2.ret = vbi.validity
                /\ ErrnoAfter(errno0, r2.writes) = errno

\* a valid descriptor whose unchecked fields are all 0, validated
C10_Witness ==
    /\ Validated
    /\ vbi.validity = TRUE
    /\ bi0.boot_entry = 0 /\ bi0.multiboot_info = 0
    /\ bi0.cpuid_edx = 0 /\ bi0.cpuid_ecx = 0

====
